---- MODULE Spec2Model ----
(***************************************************************************)
(* reorder_migration.py: read a text file as lines, cut the line list at   *)
(* three offsets into part1, part2, middle and rest, and write             *)
(* part1 + middle + part2 + rest back over the same path.                  *)
(*                                                                         *)
(* A file is a sequence of characters, a character is its code point.      *)
(* The file is opened in text mode with the default newline handling, so   *)
(* reading translates "\r\n" and "\r" to "\n" and writing translates "\n"  *)
(* to the platform's line separator.                                       *)
(***************************************************************************)
EXTENDS Integers, Sequences, FiniteSets, Bags, TLC

VARIABLES
    perm,         \* what the file system allows on filepath
    disk,         \* the characters stored at filepath
    linesep,      \* os.linesep of the platform the script runs on
    idx_part2,    \* offset where part2 begins
    idx_part3,    \* offset where middle begins
    idx_part11,   \* offset where rest begins
    pc,           \* position of the script
    rh,           \* the handle of open(filepath, 'r')
    wh,           \* the handle of open(filepath, 'w')
    lines,        \* the list returned by readlines()
    new_content,  \* the list handed to writelines()
    written,      \* how many lines of new_content have reached the file
    out,          \* standard output of the current run
    trace,        \* the I/O events of the current run, in order
    run,          \* number of the current run of the script
    disk0,        \* the characters at filepath when the current run began
    perm0,        \* what the file system allowed when the current run began
    prev_lines    \* the list read by the previous run

vars == <<perm, disk, linesep, idx_part2, idx_part3, idx_part11, pc, rh, wh,
          lines, new_content, written, out, trace, run, disk0, perm0,
          prev_lines>>

----------------------------------------------------------------------------
(* Bounds of the model. *)

\* longest file, in characters, of the parametric specification
MaxChars == 6
\* largest offset of the parametric specification
MaxOff == 3
\* how many times the script is run on the same file
MaxRuns == 2
\* how many lines a generated file has beyond the last hard-coded offset
MaxTail == 1

----------------------------------------------------------------------------
(* Characters. *)

CR == 13
LF == 10
LetterA == 97

Chars == {LetterA, CR, LF}

Min(a, b) == IF a < b THEN a ELSE b

----------------------------------------------------------------------------
(* Python list slicing with non-negative bounds: out-of-range bounds are   *)
(* clamped to the length, and an empty range gives the empty list.         *)

PySlice(s, a, b) == SubSeq(s, Min(a, Len(s)) + 1, Min(b, Len(s)))

PySliceTo(s, b) == SubSeq(s, 1, Min(b, Len(s)))

PySliceFrom(s, a) == SubSeq(s, Min(a, Len(s)) + 1, Len(s))

----------------------------------------------------------------------------
(* Text-mode reading: f.readlines() with newline=None.                     *)

\* p is a piece of a line that the piece q continues: p has no terminator
\* yet, or p ends in "\r" and q begins with the "\n" of the same "\r\n".
Continues(p, q) ==
    LET c == p[Len(p)]
    IN  \/ c \notin {CR, LF}
        \/ c = CR /\ q[1] = LF

JoinPieces(L, R) ==
    IF L = <<>> THEN R
    ELSE IF R = <<>> THEN L
    ELSE IF Continues(L[Len(L)], R[1])
         THEN SubSeq(L, 1, Len(L) - 1) \o <<L[Len(L)] \o R[1]>> \o Tail(R)
         ELSE L \o R

\* the characters d[lo..hi] cut after every "\n", "\r\n" and lone "\r"
RECURSIVE RawLines(_, _, _)
RawLines(d, lo, hi) ==
    IF lo > hi THEN <<>>
    ELSE IF lo = hi THEN << <<d[lo]>> >>
    ELSE LET mid == (lo + hi) \div 2
         IN  JoinPieces(RawLines(d, lo, mid), RawLines(d, mid + 1, hi))

\* universal newlines: the terminator of a line read is always "\n"
TranslateRead(l) ==
    LET n == Len(l)
    IN  IF n >= 2 /\ l[n - 1] = CR /\ l[n] = LF
            THEN SubSeq(l, 1, n - 2) \o <<LF>>
        ELSE IF l[n] = CR
            THEN SubSeq(l, 1, n - 1) \o <<LF>>
        ELSE l

readlines(d) ==
    LET raw == RawLines(d, 1, Len(d))
    IN  [i \in 1..Len(raw) |-> TranslateRead(raw[i])]

----------------------------------------------------------------------------
(* Text-mode writing: f.writelines() with newline=None writes every "\n"   *)
(* as os.linesep and adds nothing between or after the lines.              *)

RECURSIVE TranslateWrite(_, _)
TranslateWrite(l, sep) ==
    IF l = <<>> THEN <<>>
    ELSE (IF Head(l) = LF THEN sep ELSE <<Head(l)>>) \o TranslateWrite(Tail(l), sep)

----------------------------------------------------------------------------
(* The slices and the new order.                                           *)

\* mutation: the first slice also takes the line at idx_part2
part1_Inclusive == PySliceTo(lines, idx_part2 + 1)

part1 == PySliceTo(lines, idx_part2)

\* mutation: the grep line numbers used as offsets without subtracting 1
part2_OneBased == PySlice(lines, idx_part2 + 1, idx_part3 + 1)

part2 == PySlice(lines, idx_part2, idx_part3)

\* mutation: the third slice stops one line early
middle_DropsLast == PySlice(lines, idx_part3, idx_part11 - 1)

middle == PySlice(lines, idx_part3, idx_part11)

\* mutation: the last slice starts one line late
rest_SkipsOne == PySliceFrom(lines, idx_part11 + 1)

rest == PySliceFrom(lines, idx_part11)

\* mutation: the slices concatenated in their original order
NewOrder_NoSwap == part1 \o part2 \o middle \o rest

NewOrder == part1 \o middle \o part2 \o rest

----------------------------------------------------------------------------
(* Initial states.                                                         *)

Perms == {"ok", "missing", "unreadable", "readonly"}

LineSeps == {<<LF>>, <<CR, LF>>}

Terminators == {<<LF>>, <<CR, LF>>, <<CR>>}

\* all files of at most MaxChars characters
Files == UNION {[1..n -> Chars] : n \in 0..MaxChars}

\* the offsets of the script
HardIdxPart2 == 46 - 1
HardIdxPart3 == 183 - 1
HardIdxPart11 == 885 - 1

\* a file of n distinct one-character lines, each ended by term, the last
\* one ended only if lastTerminated
RECURSIVE GenFile(_, _, _, _, _)
GenFile(lo, hi, n, term, lastTerminated) ==
    IF lo > hi THEN <<>>
    ELSE IF lo = hi
        THEN <<1000 + lo>> \o (IF lo < n \/ lastTerminated THEN term ELSE <<>>)
    ELSE LET mid == (lo + hi) \div 2
         IN  GenFile(lo, mid, n, term, lastTerminated)
                 \o GenFile(mid + 1, hi, n, term, lastTerminated)

\* lengths around every hard-coded offset
FileLens ==
    {0, HardIdxPart2 - 1, HardIdxPart2, HardIdxPart3, HardIdxPart3 + 1,
     2 * HardIdxPart3 - HardIdxPart2, HardIdxPart11}
        \cup {HardIdxPart11 + k : k \in 1..MaxTail}

InitCommon ==
    /\ perm \in Perms
    /\ linesep \in LineSeps
    /\ pc = "open_r"
    /\ rh = "none"
    /\ wh = "none"
    /\ lines = <<>>
    /\ new_content = <<>>
    /\ written = 0
    /\ out = <<>>
    /\ trace = <<>>
    /\ run = 1
    /\ perm = "missing" => disk = <<>>
    /\ disk0 = disk
    /\ perm0 = perm
    /\ prev_lines = <<>>

\* the script as written: lines 14-16 set the offsets before any use
Init ==
    /\ idx_part2 = HardIdxPart2
    /\ idx_part3 = HardIdxPart3
    /\ idx_part11 = HardIdxPart11
    /\ \E n \in FileLens, term \in Terminators, lastTerminated \in BOOLEAN :
           disk = GenFile(1, n, n, term, lastTerminated)
    /\ InitCommon

\* the same script with the three offsets as parameters
InitParam ==
    /\ idx_part2 \in 0..MaxOff
    /\ idx_part3 \in idx_part2..MaxOff
    /\ idx_part11 \in idx_part3..MaxOff
    /\ disk \in Files
    /\ InitCommon

----------------------------------------------------------------------------
(* The steps of the script.                                                *)

Fault ==
    /\ pc' = "fault"
    /\ trace' = Append(trace, "fault")

\* mutation: a missing path is read as an empty file
ReadOpenFails_OnlyUnreadable == perm = "unreadable"

\* open(filepath, 'r') raises when the path is missing or not readable
ReadOpenFails == perm \in {"missing", "unreadable"}

\* line 6: open(filepath, 'r')
OpenRead ==
    /\ pc = "open_r"
    /\ IF ReadOpenFails
           THEN Fault /\ UNCHANGED rh
           ELSE /\ pc' = "read"
                /\ rh' = "open"
                /\ trace' = Append(trace, "open_r")
    /\ UNCHANGED <<perm, disk, linesep, idx_part2, idx_part3, idx_part11, wh,
                   lines, new_content, written, out, run, disk0, perm0,
                   prev_lines>>

\* line 7: lines = f.readlines()
ReadLines ==
    /\ pc = "read"
    /\ lines' = readlines(disk)
    /\ pc' = "close_r"
    /\ trace' = Append(trace, "read")
    /\ UNCHANGED <<perm, disk, linesep, idx_part2, idx_part3, idx_part11, rh,
                   wh, new_content, written, out, run, disk0, perm0,
                   prev_lines>>

\* leaving the with block of line 6
CloseRead ==
    /\ pc = "close_r"
    /\ rh' = "closed"
    /\ pc' = "slice"
    /\ trace' = Append(trace, "close_r")
    /\ UNCHANGED <<perm, disk, linesep, idx_part2, idx_part3, idx_part11, wh,
                   lines, new_content, written, out, run, disk0, perm0,
                   prev_lines>>

\* mutation: the offsets are checked against the lines read
Slice_Checked ==
    /\ pc = "slice"
    /\ IF idx_part11 > Len(lines)
           THEN Fault /\ UNCHANGED new_content
           ELSE /\ new_content' = NewOrder
                /\ pc' = "open_w"
                /\ UNCHANGED trace
    /\ UNCHANGED <<perm, disk, linesep, idx_part2, idx_part3, idx_part11, rh,
                   wh, lines, written, out, run, disk0, perm0, prev_lines>>

\* lines 18-24
Slice ==
    /\ pc = "slice"
    /\ new_content' = NewOrder
    /\ pc' = "open_w"
    /\ UNCHANGED <<perm, disk, linesep, idx_part2, idx_part3, idx_part11, rh,
                   wh, lines, written, out, trace, run, disk0, perm0,
                   prev_lines>>

\* mutation: the file is opened without being truncated
OpenWrite_NoTruncate ==
    /\ pc = "open_w"
    /\ IF perm = "readonly"
           THEN Fault /\ UNCHANGED <<wh, perm>>
           ELSE /\ pc' = "write"
                /\ wh' = "open"
                /\ perm' = IF perm = "missing" THEN "ok" ELSE perm
                /\ trace' = Append(trace, "open_w")
    /\ UNCHANGED <<disk, linesep, idx_part2, idx_part3, idx_part11, rh, lines,
                   new_content, written, out, run, disk0, perm0, prev_lines>>

\* mutation: the error of the write open is swallowed and the script goes on
OpenWrite_ErrorSwallowed ==
    /\ pc = "open_w"
    /\ IF perm = "readonly"
           THEN /\ pc' = "print"
                /\ UNCHANGED <<wh, disk, perm, trace>>
           ELSE /\ pc' = "write"
                /\ wh' = "open"
                /\ disk' = <<>>
                /\ perm' = IF perm = "missing" THEN "ok" ELSE perm
                /\ trace' = Append(trace, "open_w")
    /\ UNCHANGED <<linesep, idx_part2, idx_part3, idx_part11, rh, lines,
                   new_content, written, out, run, disk0, perm0, prev_lines>>

\* line 26: open(filepath, 'w') creates the file or truncates it
OpenWrite ==
    /\ pc = "open_w"
    /\ IF perm = "readonly"
           THEN Fault /\ UNCHANGED <<wh, disk, perm>>
           ELSE /\ pc' = "write"
                /\ wh' = "open"
                /\ disk' = <<>>
                /\ perm' = IF perm = "missing" THEN "ok" ELSE perm
                /\ trace' = Append(trace, "open_w")
    /\ UNCHANGED <<linesep, idx_part2, idx_part3, idx_part11, rh, lines,
                   new_content, written, out, run, disk0, perm0,
                   prev_lines>>

\* line 27: f.writelines(new_content), one line of the list at a time
WriteLine ==
    /\ pc = "write"
    /\ written < Len(new_content)
    /\ disk' = disk \o TranslateWrite(new_content[written + 1], linesep)
    /\ written' = written + 1
    /\ UNCHANGED <<perm, linesep, idx_part2, idx_part3, idx_part11, pc, rh, wh,
                   lines, new_content, out, trace, run, disk0, perm0,
                   prev_lines>>

\* line 27 returns
WriteDone ==
    /\ pc = "write"
    /\ written = Len(new_content)
    /\ pc' = "close_w"
    /\ trace' = Append(trace, "write")
    /\ UNCHANGED <<perm, disk, linesep, idx_part2, idx_part3, idx_part11, rh,
                   wh, lines, new_content, written, out, run, disk0, perm0,
                   prev_lines>>

\* leaving the with block of line 26
CloseWrite ==
    /\ pc = "close_w"
    /\ wh' = "closed"
    /\ pc' = "print"
    /\ trace' = Append(trace, "close_w")
    /\ UNCHANGED <<perm, disk, linesep, idx_part2, idx_part3, idx_part11, rh,
                   lines, new_content, written, out, run, disk0, perm0,
                   prev_lines>>

\* line 29
PrintDone ==
    /\ pc = "print"
    /\ out' = Append(out, "Successfully reordered migration file.")
    /\ pc' = "done"
    /\ trace' = Append(trace, "print")
    /\ UNCHANGED <<perm, disk, linesep, idx_part2, idx_part3, idx_part11, rh,
                   wh, lines, new_content, written, run, disk0, perm0,
                   prev_lines>>

\* the process is killed between two steps
Interrupt ==
    /\ pc \notin {"done", "fault", "interrupted"}
    /\ pc' = "interrupted"
    /\ UNCHANGED <<perm, disk, linesep, idx_part2, idx_part3, idx_part11, rh,
                   wh, lines, new_content, written, out, trace, run, disk0,
                   perm0, prev_lines>>

\* the script is started again on the file it has just written
Rerun ==
    /\ pc = "done"
    /\ run < MaxRuns
    /\ run' = run + 1
    /\ pc' = "open_r"
    /\ rh' = "none"
    /\ wh' = "none"
    /\ prev_lines' = lines
    /\ lines' = <<>>
    /\ new_content' = <<>>
    /\ written' = 0
    /\ out' = <<>>
    /\ trace' = <<>>
    /\ disk0' = disk
    /\ perm0' = perm
    /\ UNCHANGED <<perm, linesep, idx_part2, idx_part3, idx_part11, disk>>

Next ==
    \/ OpenRead
    \/ ReadLines
    \/ CloseRead
    \/ Slice
    \/ OpenWrite
    \/ WriteLine
    \/ WriteDone
    \/ CloseWrite
    \/ PrintDone
    \/ Interrupt
    \/ Rerun

Spec == Init /\ [][Next]_vars

SpecParam == InitParam /\ [][Next]_vars

SpecAll == (Init \/ InitParam) /\ [][Next]_vars

----------------------------------------------------------------------------
(* Vocabulary of the properties.                                           *)

A == idx_part2
B == idx_part3
C == idx_part11

\* the boundary invariant of the offsets against a list of lines
ValidFor(L) == 0 <= A /\ A <= B /\ B <= C /\ C <= Len(L)

\* new_content holds the result of lines 18-24 for the lines of this run
Sliced == pc = "open_w"

SuccessLine == "Successfully reordered migration file."

EventOrder == <<"open_r", "read", "close_r", "open_w", "write", "close_w", "print">>

IsPrefix(s, t) == Len(s) <= Len(t) /\ s = SubSeq(t, 1, Len(s))

Distinct(s) == \A i, j \in DOMAIN s : i # j => s[i] # s[j]

RECURSIVE BagOfLines(_, _, _)
BagOfLines(s, lo, hi) ==
    IF lo > hi THEN EmptyBag
    ELSE IF lo = hi THEN SetToBag({s[lo]})
    ELSE LET mid == (lo + hi) \div 2
         IN  BagOfLines(s, lo, mid) (+) BagOfLines(s, mid + 1, hi)

BagOf(s) == BagOfLines(s, 1, Len(s))

\* the characters writelines() produces for the lines ls[lo..hi]
RECURSIVE Encoded(_, _, _)
Encoded(ls, lo, hi) ==
    IF lo > hi THEN <<>>
    ELSE IF lo = hi THEN TranslateWrite(ls[lo], linesep)
    ELSE LET mid == (lo + hi) \div 2
         IN  Encoded(ls, lo, mid) \o Encoded(ls, mid + 1, hi)

\* the line of the input that stands at position i of the output when
\* Middle and Part2 exchange places
SourceIndex(i) ==
    IF i <= A THEN i
    ELSE IF i <= A + (C - B) THEN i + (B - A)
    ELSE IF i <= C THEN i - (C - B)
    ELSE i

----------------------------------------------------------------------------
\* C1: for offsets 0 <= A <= B <= C <= Len(lines) the list handed to
\* writelines() is lines[0:A] ++ lines[B:C] ++ lines[A:B] ++ lines[C:]:
\* it has the length of lines, and position by position it holds the line
\* the exchange of Middle and Part2 puts there.
C1_SwapsMiddleAndPart2 ==
    (Sliced /\ ValidFor(lines)) =>
        /\ Len(new_content) = Len(lines)
        /\ \A i \in 1..Len(lines) : new_content[i] = lines[SourceIndex(i)]

C1_Witness ==
    /\ Sliced
    /\ 0 < A /\ A < B /\ B < C /\ C < Len(lines)
    /\ new_content # lines

\* C2: for valid offsets the output has as many lines as the input and the
\* same multiset of lines.
C2_SameMultiset ==
    (Sliced /\ ValidFor(lines)) =>
        /\ Len(new_content) = Len(lines)
        /\ BagOf(new_content) = BagOf(lines)

C2_Witness ==
    /\ Sliced
    /\ ValidFor(lines)
    /\ A < B /\ B < C
    /\ ~Distinct(lines)
    /\ new_content # lines

\* C3: for valid offsets, cutting the output at A, A + (C - B) and C and
\* concatenating the four ranges in the order first, third, second, fourth
\* gives back the input.
C3_InverseRestoresInput ==
    (Sliced /\ ValidFor(lines)) =>
        LET O == new_content
            P1 == PySlice(O, 0, A)
            M  == PySlice(O, A, A + (C - B))
            P2 == PySlice(O, A + (C - B), C)
            R  == PySliceFrom(O, C)
        IN  P1 \o P2 \o M \o R = lines

C3_Witness ==
    /\ Sliced
    /\ ValidFor(lines)
    /\ B - A # C - B /\ A < B /\ B < C
    /\ new_content # lines

----------------------------------------------------------------------------
C5_TerminatorsPreserved ==
    pc = "done" =>
        BagOf(RawLines(disk, 1, Len(disk))) = BagOf(RawLines(disk0, 1, Len(disk0)))

\* C8: a run interrupted after the read leaves the file in one of three
\* states: untouched (before the write open); truncated to a proper prefix
\* of the new content, which is neither the new content nor, for a
\* non-empty file, the original (after the write open, before the last
\* line is written); or holding the whole new content.
C8_InterruptedFileStates ==
    (pc = "interrupted" /\ rh = "closed") =>
        \/ wh = "none" /\ disk = disk0
        \/ /\ wh = "open"
           /\ written < Len(new_content)
           /\ disk = Encoded(new_content, 1, written)
           /\ disk # Encoded(new_content, 1, Len(new_content))
           /\ disk # disk0
        \/ /\ wh # "none"
           /\ written = Len(new_content)
           /\ disk = Encoded(new_content, 1, Len(new_content))

C8_Witness ==
    /\ pc = "interrupted"
    /\ wh = "open"
    /\ 0 < written /\ written < Len(new_content)
    /\ disk # disk0
    /\ disk # Encoded(new_content, 1, Len(new_content))

----------------------------------------------------------------------------
\* C6: when the path is missing or unreadable at the start of a run, the
\* run ends in the fault raised by the read open and does nothing else: no
\* write open, the file neither created nor changed, nothing printed.
C6_ReadFaultTouchesNothing ==
    perm0 \in {"missing", "unreadable"} =>
        /\ pc \in {"open_r", "fault", "interrupted"}
        /\ trace \in {<<>>, <<"fault">>}
        /\ rh = "none" /\ wh = "none"
        /\ perm = perm0 /\ disk = disk0
        /\ written = 0
        /\ out = <<>>

C6_Witness ==
    /\ perm0 = "missing"
    /\ pc = "fault"
    /\ perm = "missing"
    /\ out = <<>>

\* C7: the events of a run are a prefix of open-for-read, read, close,
\* open-for-write, write, close, print, or such a prefix ended by a fault;
\* the file changes and the write handle opens only after the read handle
\* is closed; the confirmation line is printed at most once, only after
\* the whole write and its close, exactly once in a finished run and never
\* in a run that faults.
C7_FixedEventOrder ==
    /\ \/ IsPrefix(trace, EventOrder)
       \/ \E k \in 0..(Len(EventOrder) - 1) :
              trace = SubSeq(EventOrder, 1, k) \o <<"fault">>
    /\ (wh # "none" \/ disk # disk0) => rh = "closed"
    /\ Len(out) <= 1
    /\ out # <<>> =>
           /\ out = <<SuccessLine>>
           /\ trace = EventOrder
           /\ wh = "closed"
           /\ written = Len(new_content)
    /\ pc = "done" => Len(out) = 1
    /\ pc = "fault" => out = <<>>

C7_Witness ==
    /\ pc = "done"
    /\ trace = EventOrder
    /\ out = <<SuccessLine>>
    /\ written > 0

\* C9: when the offsets do not fit the lines read, nothing checks them: the
\* only fault left is the write open's, the slices come out shortened or
\* empty, and the run that finishes has overwritten the file with them and
\* printed the success line once.
C9_BadOffsetsPassSilently ==
    (rh = "closed" /\ ~ValidFor(lines)) =>
        /\ pc = "fault" => perm0 = "readonly"
        /\ Sliced =>
               /\ rest = <<>>
               /\ Len(part1) + Len(part2) + Len(middle) < C
               /\ new_content = part1 \o middle \o part2
        /\ pc = "done" =>
               /\ out = <<SuccessLine>>
               /\ trace = EventOrder
               /\ disk = Encoded(new_content, 1, Len(new_content))

C9_Witness ==
    /\ pc = "done"
    /\ ~ValidFor(lines)
    /\ lines # <<>>
    /\ Len(part2) < B - A
    /\ out = <<SuccessLine>>

\* C10: with ordered offsets and clamping slices the four slices partition
\* the lines of a file of any length, so the list written has the length
\* and the multiset of the list read; it is the list read itself when the
\* file has at most idx_part3 lines (Middle empty) and when Part2 is empty.
C10_AlwaysAPermutation ==
    Sliced =>
        /\ Len(new_content) = Len(lines)
        /\ BagOf(new_content) = BagOf(lines)
        /\ part1 \o part2 \o middle \o rest = lines
        /\ Len(lines) <= B => new_content = lines
        /\ (A = B \/ part2 = <<>>) => new_content = lines

C10_Witness ==
    /\ Sliced
    /\ A = HardIdxPart2 /\ B = HardIdxPart3 /\ C = HardIdxPart11
    /\ B < Len(lines) /\ Len(lines) < C
    /\ new_content # lines

====
